---------------------------- MODULE Spec2Model ----------------------------
(***************************************************************************)
(* Model of the recipe extraction endpoint (api/extract_recipe.py): the    *)
(* HTTP handler do_GET, the command-line extraction extract_recipe_full    *)
(* and the step-ingredient enricher call_gemini_for_step_ingredients.      *)
(*                                                                         *)
(* Text is a sequence of characters, each character a one-character        *)
(* string.  The scraping library and the remote model are collaborators:   *)
(* what they return or raise is an input chosen by the actions.            *)
(***************************************************************************)
EXTENDS Integers, Sequences, FiniteSets, TLC

VARIABLES GEMINI_API_KEY, op, pc, request, site, reply, url, scraped_data,
          step_ingredients, result, response, output, scrapeCalls,
          enricherCalls, prompts

vars == <<GEMINI_API_KEY, op, pc, request, site, reply, url, scraped_data,
          step_ingredients, result, response, output, scrapeCalls,
          enricherCalls, prompts>>

---------------------------------------------------------------------------
(* Bounds of the model.                                                    *)

\* Longest list of raw ingredient lines a site returns.
MaxIngredients == 2

\* Longest list of instruction lines a site returns.
MaxSteps == 2

\* Most entries of a JSON object in a model reply.
MaxKeys == 2

---------------------------------------------------------------------------
(* Characters and Python's str operations.                                 *)

SP == " "
NL == "\n"
TAB == "\t"
DQ == "\""
\* The backquote character of a Markdown fence, named: a string literal of
\* the language cannot hold it.
BT == "BACKTICK"

\* str.strip() removes these (of the characters the model uses).
PyWhitespace == {SP, NL, TAB}

\* The whitespace json.loads skips between tokens.
JsonWhitespace == {SP, NL, TAB}

Digits == {"0", "1", "2", "3", "4", "5", "6", "7", "8", "9"}

DigitVal(c) ==
    CASE c = "0" -> 0 [] c = "1" -> 1 [] c = "2" -> 2 [] c = "3" -> 3
      [] c = "4" -> 4 [] c = "5" -> 5 [] c = "6" -> 6 [] c = "7" -> 7
      [] c = "8" -> 8 [] c = "9" -> 9

DigitChar(d) ==
    CASE d = 0 -> "0" [] d = 1 -> "1" [] d = 2 -> "2" [] d = 3 -> "3"
      [] d = 4 -> "4" [] d = 5 -> "5" [] d = 6 -> "6" [] d = 7 -> "7"
      [] d = 8 -> "8" [] d = 9 -> "9"

RECURSIVE LStrip(_)
LStrip(s) ==
    IF s # <<>> /\ Head(s) \in PyWhitespace THEN LStrip(Tail(s)) ELSE s

RECURSIVE RStrip(_)
RStrip(s) ==
    IF s # <<>> /\ s[Len(s)] \in PyWhitespace
    THEN RStrip(SubSeq(s, 1, Len(s) - 1))
    ELSE s

\* str.strip()
Strip(s) == RStrip(LStrip(s))

\* str.startswith(p)
StartsWith(s, p) == Len(s) >= Len(p) /\ SubSeq(s, 1, Len(p)) = p

\* str.endswith(p)
EndsWith(s, p) ==
    Len(s) >= Len(p) /\ SubSeq(s, Len(s) - Len(p) + 1, Len(s)) = p

\* sub in s
Contains(s, sub) ==
    \E i \in 1..(Len(s) - Len(sub) + 1) : SubSeq(s, i, i + Len(sub) - 1) = sub

RECURSIVE Join(_, _)
\* sep.join(parts)
Join(sep, parts) ==
    IF parts = <<>> THEN <<>>
    ELSE IF Len(parts) = 1 THEN parts[1]
    ELSE parts[1] \o sep \o Join(sep, Tail(parts))

RECURSIVE NatToStr(_)
NatToStr(n) ==
    IF n < 10 THEN <<DigitChar(n)>>
    ELSE NatToStr(n \div 10) \o <<DigitChar(n % 10)>>

\* str(n) of an integer
IntToStr(n) == IF n < 0 THEN <<"-">> \o NatToStr(0 - n) ELSE NatToStr(n)

---------------------------------------------------------------------------
(* int(k) of a string key: surrounding whitespace is dropped, one sign is  *)
(* allowed, then decimal digits, single underscores between digits.        *)

RECURSIVE DigitsValue(_, _)
DigitsValue(s, acc) ==
    IF s = <<>> THEN acc
    ELSE IF Head(s) = "_" THEN DigitsValue(Tail(s), acc)
    ELSE DigitsValue(Tail(s), 10 * acc + DigitVal(Head(s)))

IsDigitRun(s) ==
    /\ s # <<>>
    /\ \A i \in 1..Len(s) : s[i] \in Digits \cup {"_"}
    /\ s[1] # "_" /\ s[Len(s)] # "_"
    /\ \A i \in 1..(Len(s) - 1) : ~(s[i] = "_" /\ s[i + 1] = "_")

\* [ok, val]: ok is FALSE where int(k) raises ValueError.
PyInt(k) ==
    LET t    == Strip(k)
        sign == IF t # <<>> /\ Head(t) \in {"-", "+"} THEN Head(t) ELSE ""
        body == IF sign = "" THEN t ELSE Tail(t)
    IN IF IsDigitRun(body)
       THEN [ok |-> TRUE,
             val |-> IF sign = "-" THEN 0 - DigitsValue(body, 0)
                     ELSE DigitsValue(body, 0)]
       ELSE [ok |-> FALSE, val |-> 0]

---------------------------------------------------------------------------
(* json.loads over the model's characters.  A JSON value is a record       *)
(* [t, v]: t = "str" with v the characters, t = "num" with v the literal's *)
(* characters, t = "arr" with v the sequence of values, t = "obj" with v   *)
(* the sequence of entries [k, v] in the order of the text.                *)

JStr(s) == [t |-> "str", v |-> s]
JNum(s) == [t |-> "num", v |-> s]
JArr(xs) == [t |-> "arr", v |-> xs]
JObj(es) == [t |-> "obj", v |-> es]

JFail == [ok |-> FALSE, val |-> JArr(<<>>), next |-> 0]
JOk(val, next) == [ok |-> TRUE, val |-> val, next |-> next]

RECURSIVE SkipWs(_, _)
SkipWs(s, i) ==
    IF i <= Len(s) /\ s[i] \in JsonWhitespace THEN SkipWs(s, i + 1) ELSE i

RECURSIVE StringEnd(_, _)
\* The index of the closing quote of a string whose content starts at i;
\* 0 when the string is unterminated or holds a control character.
StringEnd(s, i) ==
    IF i > Len(s) THEN 0
    ELSE IF s[i] = DQ THEN i
    ELSE IF s[i] \in {NL, TAB} THEN 0
    ELSE StringEnd(s, i + 1)

\* A string literal starting at the quote s[i].
ParseString(s, i) ==
    LET j == StringEnd(s, i + 1)
    IN IF j = 0 THEN JFail ELSE JOk(JStr(SubSeq(s, i + 1, j - 1)), j + 1)

RECURSIVE DigitsEnd(_, _)
DigitsEnd(s, i) ==
    IF i <= Len(s) /\ s[i] \in Digits THEN DigitsEnd(s, i + 1) ELSE i

\* An integer literal -?(0|[1-9][0-9]*) starting at s[i].
ParseNumber(s, i) ==
    LET d == IF s[i] = "-" THEN i + 1 ELSE i
    IN IF d > Len(s) \/ s[d] \notin Digits THEN JFail
       ELSE LET e == IF s[d] = "0" THEN d + 1 ELSE DigitsEnd(s, d)
            IN JOk(JNum(SubSeq(s, i, e - 1)), e)

RECURSIVE ParseValue(_, _)
RECURSIVE ParseArrayItems(_, _, _)
RECURSIVE ParseObjectItems(_, _, _)

\* After "[" or ",": a value, then "]" or "," and more.
ParseArrayItems(s, i, acc) ==
    LET r == ParseValue(s, i)
    IN IF ~r.ok THEN JFail
       ELSE LET j == SkipWs(s, r.next)
                items == Append(acc, r.val)
            IN IF j > Len(s) THEN JFail
               ELSE IF s[j] = "]" THEN JOk(JArr(items), j + 1)
               ELSE IF s[j] = ","
                    THEN ParseArrayItems(s, SkipWs(s, j + 1), items)
               ELSE JFail

\* After "{" or ",": a key at s[i], ":", a value, then "}" or "," and more.
ParseObjectItems(s, i, acc) ==
    IF i > Len(s) \/ s[i] # DQ THEN JFail
    ELSE LET k == ParseString(s, i)
         IN IF ~k.ok THEN JFail
            ELSE LET c == SkipWs(s, k.next)
                 IN IF c > Len(s) \/ s[c] # ":" THEN JFail
                    ELSE LET r == ParseValue(s, SkipWs(s, c + 1))
                         IN IF ~r.ok THEN JFail
                            ELSE LET j == SkipWs(s, r.next)
                                     es == Append(acc, [k |-> k.val.v,
                                                        v |-> r.val])
                                 IN IF j > Len(s) THEN JFail
                                    ELSE IF s[j] = "}"
                                         THEN JOk(JObj(es), j + 1)
                                    ELSE IF s[j] = ","
                                         THEN ParseObjectItems(
                                                  s, SkipWs(s, j + 1), es)
                                    ELSE JFail

ParseValue(s, i) ==
    IF i > Len(s) THEN JFail
    ELSE IF s[i] = DQ THEN ParseString(s, i)
    ELSE IF s[i] = "{"
         THEN LET j == SkipWs(s, i + 1)
              IN IF j <= Len(s) /\ s[j] = "}" THEN JOk(JObj(<<>>), j + 1)
                 ELSE ParseObjectItems(s, j, <<>>)
    ELSE IF s[i] = "["
         THEN LET j == SkipWs(s, i + 1)
              IN IF j <= Len(s) /\ s[j] = "]" THEN JOk(JArr(<<>>), j + 1)
                 ELSE ParseArrayItems(s, j, <<>>)
    ELSE IF s[i] = "-" \/ s[i] \in Digits THEN ParseNumber(s, i)
    ELSE JFail

\* json.loads(s): [ok, val]; ok is FALSE where it raises JSONDecodeError.
JsonLoads(s) ==
    LET r == ParseValue(s, SkipWs(s, 1))
    IN IF r.ok /\ SkipWs(s, r.next) = Len(s) + 1
       THEN [ok |-> TRUE, val |-> r.val]
       ELSE [ok |-> FALSE, val |-> r.val]

---------------------------------------------------------------------------
(* Python values the collaborators return: None, a string, a number.       *)

PyNone == [t |-> "none", v |-> <<>>]
PyStr(s) == [t |-> "str", v |-> s]
PyNum(n) == [t |-> "int", v |-> <<n>>]

\* bool(x)
Truthy(x) ==
    CASE x.t = "none" -> FALSE
      [] x.t = "str" -> x.v # <<>>
      [] x.t = "int" -> x.v[1] # 0

\* A local variable of a function: assigned or not yet.
Unbound == [bound |-> FALSE, v |-> <<>>]
Bound(x) == [bound |-> TRUE, v |-> x]

\* The empty dict, and dicts keyed by integers.
EmptyMap == [n \in {} |-> JArr(<<>>)]

---------------------------------------------------------------------------
(* call_gemini_for_step_ingredients                                        *)

Fence == <<BT, BT, BT>>
FenceJson == Fence \o <<"j", "s", "o", "n">>

\* The reply text as handed to json.loads.
CleanReply(text) ==
    LET a == Strip(text)
        b == IF StartsWith(a, FenceJson) THEN SubSeq(a, 8, Len(a)) ELSE a
        c == IF EndsWith(b, Fence) THEN SubSeq(b, 1, Len(b) - 3) ELSE b
    IN Strip(c)

\* The last index of key k among the entries es.
LastIdx(es, k) ==
    CHOOSE j \in 1..Len(es) :
        es[j].k = k /\ \A l \in (j + 1)..Len(es) : es[l].k # k

RECURSIVE DictFrom(_, _)
\* The dict json.loads builds of an object's entries, as its items in
\* order: a repeated key keeps its first place and its last value.
DictFrom(es, i) ==
    IF i > Len(es) THEN <<>>
    ELSE (IF \E j \in 1..(i - 1) : es[j].k = es[i].k
          THEN <<>>
          ELSE <<[k |-> es[i].k, v |-> es[LastIdx(es, es[i].k)].v]>>)
         \o DictFrom(es, i + 1)

\* {int(k): v for k, v in items}: a later item replaces an earlier one of
\* the same integer.
IntKeyed(items) ==
    LET key(i) == PyInt(items[i].k).val
    IN [n \in {key(i) : i \in 1..Len(items)} |->
           items[CHOOSE i \in 1..Len(items) :
                     key(i) = n /\ \A l \in (i + 1)..Len(items) : key(l) # n].v]

\* The dict comprehension over the items of the parsed object: int(k) of
\* a key that is no integer raises ValueError.
GeminiKeys(items) ==
    IF \E i \in 1..Len(items) : ~PyInt(items[i].k).ok
    THEN [exc |-> "ValueError", value |-> EmptyMap]
    ELSE [exc |-> "", value |-> IntKeyed(items)]

\* What follows json.loads in the try block: .items() of a value that is
\* no dict raises AttributeError.
GeminiParsed(parsed) ==
    IF ~parsed.ok THEN [exc |-> "JSONDecodeError", value |-> EmptyMap]
    ELSE IF parsed.val.t # "obj"
    THEN [exc |-> "AttributeError", value |-> EmptyMap]
    ELSE GeminiKeys(DictFrom(parsed.val.v, 1))

\* The enricher's try block for a remote model that behaves as llm:
\* [exc, value], exc the exception raised in the block or "".
GeminiTry(llm) ==
    IF llm.kind = "raise" THEN [exc |-> "RemoteError", value |-> EmptyMap]
    ELSE IF llm.kind = "none" THEN [exc |-> "", value |-> EmptyMap]
    ELSE GeminiParsed(JsonLoads(CleanReply(llm.text)))

\* The exceptions the model raises; each is an Exception.
Exceptions ==
    {"JSONDecodeError", "ValueError", "AttributeError", "RemoteError",
     "UnboundLocalError"}

GeminiCatchesNothing(exc) == FALSE

GeminiCatchesDecodeOnly(exc) == exc = "JSONDecodeError"

\* The except clauses of the enricher: json.JSONDecodeError, then Exception.
GeminiCatches(exc) ==
    exc = "JSONDecodeError" \/ exc \in Exceptions

\* recipe_data.get("cook", {}).get("steps", [])
StepsOf(recipe_data) ==
    IF "cook" \in DOMAIN recipe_data /\ "steps" \in DOMAIN recipe_data.cook
    THEN recipe_data.cook.steps
    ELSE <<>>

\* recipe_data.get("prep", {}).get("ingredients", [])
IngredientsOf(recipe_data) ==
    IF "prep" \in DOMAIN recipe_data
       /\ "ingredients" \in DOMAIN recipe_data.prep
    THEN recipe_data.prep.ingredients
    ELSE <<>>

\* f"{ing.get('quantity', '') or ''} {ing.get('item', '')}".strip()
IngredientForPrompt(ing) ==
    Strip((IF Truthy(ing.quantity) THEN ing.quantity.v ELSE <<>>)
          \o <<SP>> \o ing.item)

\* f"Step {i+1}: {step}"
StepForPrompt(i, step) ==
    <<"S", "t", "e", "p", SP>> \o IntToStr(i) \o <<":", SP>> \o step

\* The four fixed sentences of the prompt, one token.
PromptTask == <<"<task and output contract>">>
PromptIngredientsHeader == <<NL, "--- Full Ingredients List ---">>
PromptStepsHeader == <<NL, "--- Cooking Steps ---">>
PromptOutputHeader == <<NL, "--- JSON Output for step_ingredients ---">>

\* "".join(prompt_parts)
BuildPrompt(recipe_data) ==
    LET steps == StepsOf(recipe_data)
        ings  == IngredientsOf(recipe_data)
    IN PromptTask
       \o PromptIngredientsHeader
       \o Join(<<NL>>, [i \in 1..Len(ings) |-> IngredientForPrompt(ings[i])])
       \o PromptStepsHeader
       \o Join(<<NL>>, [i \in 1..Len(steps) |-> StepForPrompt(i, steps[i])])
       \o PromptOutputHeader

\* The end of the try block t, with its except clauses, after the prompt
\* went out: [raised, exc, value, sent].
GeminiReturn(t, prompt) ==
    IF t.exc = ""
    THEN [raised |-> FALSE, exc |-> "", value |-> t.value,
          sent |-> <<prompt>>]
    ELSE IF GeminiCatches(t.exc)
    THEN [raised |-> FALSE, exc |-> "", value |-> EmptyMap,
          sent |-> <<prompt>>]
    ELSE [raised |-> TRUE, exc |-> t.exc, value |-> EmptyMap,
          sent |-> <<prompt>>]

\* The call: [raised, exc, value, sent], sent the prompts handed to the
\* remote model.
CallGemini(key, recipe_data, llm) ==
    IF ~key
    THEN [raised |-> FALSE, exc |-> "", value |-> EmptyMap, sent |-> <<>>]
    ELSE GeminiReturn(GeminiTry(llm), BuildPrompt(recipe_data))

---------------------------------------------------------------------------
(* The scraping collaborator.  A site is what scrape_me and the accessors  *)
(* of the scraper do for one URL: fault names the call that raises         *)
(* ("none": no call raises; "unsupported": scrape_me raises unless called  *)
(* with wild_mode=True).                                                   *)

\* The accessors do_GET reads, in order.
HandlerAccessors ==
    <<"title", "total_time", "yields", "ingredients", "instructions",
      "image", "host", "canonical_url", "nutrients", "ratings", "reviews",
      "author", "cuisine", "category", "cook_time", "prep_time",
      "description", "keywords", "language", "equipment",
      "ingredient_groups", "instructions_list", "suitable_for_diet">>

\* The accessors extract_recipe_full reads, in order.
FullAccessors ==
    <<"ingredients", "instructions_list", "title", "image", "total_time",
      "yields">>

Range(f) == {f[i] : i \in DOMAIN f}

\* str(e) of the exception a faulty call raises.
FaultMessage(fault) == <<"fault in ", fault>>

\* scrape_me(url, wild_mode) and then the accessors in order: the message
\* of the first call that raises, or none.
ScrapeFault(st, accessors, wild_mode) ==
    IF st.fault = "scrape_me" \/ (st.fault = "unsupported" /\ ~wild_mode)
       \/ st.fault \in Range(accessors)
    THEN Bound(FaultMessage(st.fault))
    ELSE Unbound

\* What the accessor returns on a site where it does not raise.
Accessor(st, name) ==
    CASE name = "title" -> PyStr(<<"T">>)
      [] name = "yields" -> PyStr(<<"4">>)
      [] name = "total_time" -> st.total_time
      [] name = "image" -> st.image
      [] name = "ingredients" -> st.ingredients
      [] name = "instructions_list" -> st.instructions_list
      [] name = "instructions" -> Join(<<NL>>, st.instructions_list)
      [] OTHER -> PyNone

\* parts = ing_str.split(' ', 1) and the branch on len(parts)
ParseIngredient(ing_str) ==
    IF \E i \in 1..Len(ing_str) : ing_str[i] = SP
    THEN LET i == CHOOSE i \in 1..Len(ing_str) :
                      ing_str[i] = SP /\ \A j \in 1..(i - 1) : ing_str[j] # SP
         IN [quantity |-> PyStr(SubSeq(ing_str, 1, i - 1)),
             item |-> SubSeq(ing_str, i + 1, Len(ing_str))]
    ELSE [quantity |-> PyNone, item |-> ing_str]

\* initial_recipe_data of extract_recipe_full
InitialRecipeData(source_url, st) ==
    [title |-> Accessor(st, "title"),
     image |-> IF Truthy(Accessor(st, "image")) THEN Accessor(st, "image")
               ELSE PyNone,
     totalTime |-> IF Truthy(Accessor(st, "total_time"))
                   THEN Accessor(st, "total_time") ELSE PyNum(0),
     yields |-> Accessor(st, "yields"),
     sourceUrl |-> source_url,
     prep |-> [ingredients |->
                  [i \in 1..Len(st.ingredients) |->
                      ParseIngredient(st.ingredients[i])]],
     cook |-> [steps |-> Accessor(st, "instructions_list")]]

\* initial_recipe_data["step_ingredients"] = step_ingredients
WithStepIngredients(data, mapping) ==
    [f \in DOMAIN data \cup {"step_ingredients"} |->
        IF f = "step_ingredients" THEN mapping ELSE data[f]]

\* What extract_recipe_full returns when e was raised in its try block.
ExtractFailure(e) == [success |-> FALSE, error |-> e, data |-> <<>>]

\* What extract_recipe_full returns after the enricher call g.
ExtractOutcome(data, g) ==
    IF g.raised THEN ExtractFailure(<<g.exc>>)
    ELSE [success |-> TRUE, error |-> <<>>,
          data |-> WithStepIngredients(data, g.value)]

---------------------------------------------------------------------------
(* handler.do_GET, stage by stage.  A request is [url, apiKey,             *)
(* targetParses]: url the raw value of the query parameter (PyNone when    *)
(* absent), apiKey how the x-api-key header compares with the configured   *)
(* key, targetParses whether urlparse and parse_qs accept the request      *)
(* target.                                                                 *)

\* query.get('url', [None])[0]: parse_qs drops a blank value.
QueryUrl(req) == IF Truthy(req.url) THEN req.url ELSE PyNone

\* Stage "Request Received": the 400 reply and return, or the local url,
\* which stays unassigned when parsing raises.
StageRequest(req) ==
    IF ~req.targetParses THEN [returned |-> FALSE, url |-> Unbound]
    ELSE IF ~Truthy(QueryUrl(req))
         THEN [returned |-> TRUE, url |-> Bound(QueryUrl(req))]
         ELSE [returned |-> FALSE, url |-> Bound(QueryUrl(req))]

\* scraped_data of do_GET
ScrapedData(st) ==
    [a \in Range(HandlerAccessors) |-> Accessor(st, a)]

\* Stage "Recipe Scraping": [returned, scraped_data, calls], calls the
\* number of scrape_me calls.
StageScrape(url_local, st) ==
    IF ~url_local.bound
    THEN [returned |-> FALSE, scraped_data |-> Unbound, calls |-> 0]
    ELSE IF ~Truthy(url_local.v)
    THEN [returned |-> TRUE, scraped_data |-> Unbound, calls |-> 0]
    ELSE IF ScrapeFault(st, HandlerAccessors, TRUE).bound
    THEN [returned |-> FALSE, scraped_data |-> Unbound, calls |-> 1]
    ELSE [returned |-> FALSE, scraped_data |-> Bound(ScrapedData(st)),
          calls |-> 1]

\* The try block of stage "Gemini Processing" around the enricher call g:
\* an exception leaves step_ingredients unassigned.
GeminiStageEnd(g) ==
    [step_ingredients |-> IF g.raised THEN Unbound ELSE Bound(g.value),
     calls |-> 1, sent |-> g.sent]

\* Stage "Gemini Processing": [step_ingredients, calls, sent].
StageGemini(key, scraped, llm) ==
    IF ~scraped.bound
    THEN [step_ingredients |-> Unbound, calls |-> 0, sent |-> <<>>]
    ELSE GeminiStageEnd(CallGemini(key, scraped.v, llm))

\* Stage "Response Assembly": the local result.
StageAssembly(scraped, steps) ==
    IF scraped.bound /\ steps.bound
    THEN Bound([recipe |-> scraped.v,
                step_ingredients |-> steps.v])
    ELSE Unbound

\* json.dumps of a dict keyed by integers: the keys become decimal strings.
StrKeyed(m) ==
    [k \in {IntToStr(n) : n \in DOMAIN m} |->
        m[CHOOSE n \in DOMAIN m : IntToStr(n) = k]]

HTTP_OK == 200
HTTP_BAD_REQUEST == 400

\* self.send_error(400, "Missing 'url' query parameter"): an HTML page.
SendError400 ==
    [status |-> HTTP_BAD_REQUEST, contentType |-> "text/html",
     body |-> [kind |-> "html", value |-> <<>>], uncaught |-> ""]

\* "Send response": the status line and header, then the JSON of result;
\* an unassigned result raises after the status line went out.
SendResponse(res) ==
    IF res.bound
    THEN [status |-> HTTP_OK, contentType |-> "application/json",
          body |-> [kind |-> "json",
                    value |-> [recipe |-> res.v.recipe,
                               step_ingredients |->
                                   StrKeyed(res.v.step_ingredients)]],
          uncaught |-> ""]
    ELSE [status |-> HTTP_OK, contentType |-> "application/json",
          body |-> [kind |-> "none", value |-> <<>>],
          uncaught |-> "UnboundLocalError"]

---------------------------------------------------------------------------
(* The inputs the actions choose from.                                     *)

SeqsUpTo(S, n) == UNION {[1..m -> S] : m \in 0..n}

Url == <<"u">>

Requests ==
    [url : {PyNone, PyStr(<<>>), PyStr(Url)},
     apiKey : {"missing", "wrong", "match"},
     targetParses : BOOLEAN]

\* Raw ingredient lines: "2 c f", "s", " 2 c", "2<tab>c".
LineSamples ==
    {<<"2", SP, "c", SP, "f">>, <<"s">>, <<SP, "2", SP, "c">>,
     <<"2", TAB, "c">>}

StepSamples == {<<"m">>, <<"b">>}

GoodSites ==
    [fault : {"none"},
     ingredients : SeqsUpTo(LineSamples, MaxIngredients),
     instructions_list : SeqsUpTo(StepSamples, MaxSteps),
     image : {PyNone, PyStr(<<"i">>)},
     total_time : {PyNone, PyNum(30)}]

FaultySites ==
    [fault : {"scrape_me", "unsupported"} \cup Range(HandlerAccessors),
     ingredients : {<<<<"2", SP, "c", SP, "f">>>>},
     instructions_list : {<<<<"m">>>>},
     image : {PyNone},
     total_time : {PyNum(30)}]

Sites == GoodSites \cup FaultySites

\* No site was asked, no model was called.
NoSite ==
    [fault |-> "not scraped", ingredients |-> <<>>,
     instructions_list |-> <<>>, image |-> PyNone, total_time |-> PyNone]
NoReply ==
    [kind |-> "not called", lead |-> <<>>, body |-> <<>>, trail |-> <<>>,
     text |-> <<>>]

RECURSIVE JsonText(_)
RECURSIVE JsonItemsText(_)
RECURSIVE JsonEntriesText(_)
\* The compact JSON text of a value.
JsonText(x) ==
    CASE x.t = "str" -> <<DQ>> \o x.v \o <<DQ>>
      [] x.t = "num" -> x.v
      [] x.t = "arr" -> <<"[">> \o JsonItemsText(x.v) \o <<"]">>
      [] x.t = "obj" -> <<"{">> \o JsonEntriesText(x.v) \o <<"}">>
JsonItemsText(xs) ==
    IF xs = <<>> THEN <<>>
    ELSE JsonText(Head(xs))
         \o (IF Len(xs) > 1 THEN <<",">> ELSE <<>>) \o JsonItemsText(Tail(xs))
JsonEntriesText(es) ==
    IF es = <<>> THEN <<>>
    ELSE <<DQ>> \o Head(es).k \o <<DQ, ":">> \o JsonText(Head(es).v)
         \o (IF Len(es) > 1 THEN <<",">> ELSE <<>>)
         \o JsonEntriesText(Tail(es))

\* Keys a model may reply with: "0", "1", "7", "-1", " 1", "a".
KeySamples ==
    {<<"0">>, <<"1">>, <<"7">>, <<"-", "1">>, <<SP, "1">>, <<"a">>}

ValueSamples == {JArr(<<>>), JArr(<<JStr(<<"a">>)>>)}

\* The texts of the JSON objects of at most MaxKeys entries.
ObjectTexts ==
    {JsonText(JObj(es)) :
        es \in SeqsUpTo([k : KeySamples, v : ValueSamples], MaxKeys)}

\* Replies that are no JSON object: empty, an array, a number, a string,
\* truncated or trailing text, a trailing comma, an unquoted key, a string
\* with a line break, prose.
OtherTexts ==
    {<<>>, <<"[", "]">>, <<"1">>, <<DQ, "a", DQ>>, <<"{">>,
     <<"{", DQ, "0", DQ, ":", "[", "]">>,
     <<"{", DQ, "0", DQ, ":", "[", "]", ",", "}">>,
     <<"{", "0", ":", "[", "]", "}">>,
     <<"{", DQ, "0", DQ, ":", "[", DQ, NL, DQ, "]", "}">>,
     <<"{", DQ, "0", DQ, ":", "[", "]", "}", SP, "a">>,
     <<"a">>}

\* A JSON object written with whitespace between its tokens.
SpacedTexts ==
    {<<SP, "{", SP, DQ, "1", DQ, SP, ":", NL, "[", SP, DQ, "a", DQ, SP, "]",
       SP, "}", NL>>}

Leads == {<<>>, FenceJson \o <<NL>>, Fence \o <<NL>>, FenceJson}
Trails == {<<>>, <<NL>> \o Fence, Fence \o <<NL>>}

TextReply(lead, body, trail) ==
    [kind |-> "text", lead |-> lead, body |-> body, trail |-> trail,
     text |-> lead \o body \o trail]

\* What generate_content and response.text may do.
FailedReplies ==
    {[kind |-> k, lead |-> <<>>, body |-> <<>>, trail |-> <<>>,
      text |-> <<>>] : k \in {"raise", "none"}}

Replies ==
    FailedReplies
    \cup {TextReply(l, b, t) :
             l \in Leads, b \in ObjectTexts \cup OtherTexts \cup SpacedTexts,
             t \in Trails}

\* The replies the two pipelines are run with.
PipelineReplies ==
    FailedReplies
    \cup {TextReply(<<>>, b, <<>>) :
             b \in {<<"{", DQ, "0", DQ, ":", "[", DQ, "a", DQ, "]", "}">>,
                    <<"{", DQ, "7", DQ, ":", "[", "]", "}">>,
                    <<"{", DQ, "a", DQ, ":", "[", "]", "}">>,
                    <<"[", "]">>, <<"{">>, <<>>}}
    \cup {TextReply(l, <<"{", DQ, "1", DQ, ":", "[", DQ, "a", DQ, "]", "}">>,
                    <<NL>> \o Fence) :
             l \in {FenceJson \o <<NL>>, Fence \o <<NL>>}}

\* Recipes the enricher is called with directly: n ingredient lines and n
\* instruction lines each.
RecipeSamples ==
    {InitialRecipeData(Url, st) :
        st \in {g \in GoodSites :
                   /\ g.image = PyNone /\ g.total_time = PyNone
                   /\ Len(g.ingredients) = Len(g.instructions_list)
                   /\ \A i \in 1..Len(g.ingredients) :
                        /\ g.ingredients[i] = <<"2", SP, "c", SP, "f">>
                        /\ g.instructions_list[i] = <<"m">>}}

---------------------------------------------------------------------------
(* The state: the process's credential; the operation under way (op) and   *)
(* its position (pc); its input (request), what the collaborators did      *)
(* (site, reply); the locals url, scraped_data, step_ingredients and       *)
(* result of the function running; and what came out: response for        *)
(* do_GET, output for the command line and for a direct enricher call.     *)

NoResponse ==
    [status |-> 0, contentType |-> "",
     body |-> [kind |-> "none", value |-> <<>>], uncaught |-> ""]

Init ==
    /\ GEMINI_API_KEY \in BOOLEAN
    /\ op = "none"
    /\ pc = "idle"
    /\ request = <<>>
    /\ site = NoSite
    /\ reply = NoReply
    /\ url = Unbound
    /\ scraped_data = Unbound
    /\ step_ingredients = Unbound
    /\ result = Unbound
    /\ response = NoResponse
    /\ output = <<>>
    /\ scrapeCalls = 0
    /\ enricherCalls = 0
    /\ prompts = <<>>

inputs == <<request, site, reply>>
locals == <<url, scraped_data, step_ingredients, result>>
calls == <<scrapeCalls, enricherCalls, prompts>>

\* do_GET, stage "Request Received": a GET request arrives.
GetReceive ==
    /\ pc = "idle"
    /\ \E req \in Requests :
         /\ op' = "do_GET"
         /\ request' = req
         /\ url' = StageRequest(req).url
         /\ IF StageRequest(req).returned
            THEN response' = SendError400 /\ pc' = "done"
            ELSE response' = response /\ pc' = "get_scrape"
    /\ UNCHANGED <<GEMINI_API_KEY, site, reply, scraped_data,
                   step_ingredients, result, output, calls>>

\* do_GET, stage "Recipe Scraping".
GetScrape ==
    /\ pc = "get_scrape"
    /\ \E st \in (IF url.bound THEN Sites ELSE {NoSite}) :
         /\ site' = st
         /\ scraped_data' = StageScrape(url, st).scraped_data
         /\ scrapeCalls' = StageScrape(url, st).calls
         /\ IF StageScrape(url, st).returned
            THEN response' = SendError400 /\ pc' = "done"
            ELSE response' = response /\ pc' = "get_gemini"
    /\ UNCHANGED <<GEMINI_API_KEY, op, request, reply, url, step_ingredients,
                   result, output, enricherCalls, prompts>>

\* do_GET, stage "Gemini Processing".
GetGemini ==
    /\ pc = "get_gemini"
    /\ \E llm \in (IF scraped_data.bound /\ GEMINI_API_KEY
                   THEN PipelineReplies ELSE {NoReply}) :
         /\ reply' = llm
         /\ \E s3 \in {StageGemini(GEMINI_API_KEY, scraped_data, llm)} :
              /\ step_ingredients' = s3.step_ingredients
              /\ enricherCalls' = s3.calls
              /\ prompts' = s3.sent
    /\ pc' = "get_assembly"
    /\ UNCHANGED <<GEMINI_API_KEY, op, request, site, url, scraped_data,
                   result, response, output, scrapeCalls>>

\* do_GET, stage "Response Assembly".
GetAssembly ==
    /\ pc = "get_assembly"
    /\ result' = StageAssembly(scraped_data, step_ingredients)
    /\ pc' = "get_send"
    /\ UNCHANGED <<GEMINI_API_KEY, op, inputs, url, scraped_data,
                   step_ingredients, response, output, calls>>

\* do_GET, "Send response".
GetSend ==
    /\ pc = "get_send"
    /\ response' = SendResponse(result)
    /\ pc' = "done"
    /\ UNCHANGED <<GEMINI_API_KEY, op, inputs, locals, output, calls>>

\* The command-line mode starts with the arguments argv.
MainStart ==
    /\ pc = "idle"
    /\ \E argv \in {<<>>, <<Url>>} :
         /\ op' = "main"
         /\ request' = argv
         /\ IF Len(argv) > 0
            THEN url' = Bound(argv[1]) /\ output' = output
                 /\ pc' = "full_scrape"
            ELSE url' = url /\ output' = [ran |-> FALSE, exit |-> 1]
                 /\ pc' = "done"
    /\ UNCHANGED <<GEMINI_API_KEY, site, reply, scraped_data,
                   step_ingredients, result, response, calls>>

\* The result of extract_recipe_full is printed and decides the exit code.
MainExit(r) ==
    [ran |-> TRUE, result |-> r, exit |-> IF r.success THEN 0 ELSE 1]

\* extract_recipe_full: scrape_me, the accessors, initial_recipe_data.
FullScrape ==
    /\ pc = "full_scrape"
    /\ \E st \in Sites :
         /\ site' = st
         /\ scrapeCalls' = 1
         /\ IF ScrapeFault(st, FullAccessors, FALSE).bound
            THEN /\ output' = MainExit(ExtractFailure(
                                  ScrapeFault(st, FullAccessors, FALSE).v))
                 /\ scraped_data' = scraped_data
                 /\ pc' = "done"
            ELSE /\ output' = output
                 /\ scraped_data' = Bound(InitialRecipeData(url.v, st))
                 /\ pc' = "full_gemini"
    /\ UNCHANGED <<GEMINI_API_KEY, op, request, reply, url, step_ingredients,
                   result, response, enricherCalls, prompts>>

\* extract_recipe_full: the enricher call and the return.
FullGemini ==
    /\ pc = "full_gemini"
    /\ \E llm \in (IF GEMINI_API_KEY THEN PipelineReplies ELSE {NoReply}) :
         /\ reply' = llm
         /\ \E g \in {CallGemini(GEMINI_API_KEY, scraped_data.v, llm)} :
              /\ output' = MainExit(ExtractOutcome(scraped_data.v, g))
              /\ prompts' = g.sent
    /\ enricherCalls' = 1
    /\ pc' = "done"
    /\ UNCHANGED <<GEMINI_API_KEY, op, request, site, locals, response,
                   scrapeCalls>>

\* One call of call_gemini_for_step_ingredients.
Enrich ==
    /\ pc = "idle"
    /\ \E recipe_data \in RecipeSamples :
         \E llm \in (IF GEMINI_API_KEY THEN Replies ELSE {NoReply}) :
           /\ request' = recipe_data
           /\ reply' = llm
           /\ \E g \in {CallGemini(GEMINI_API_KEY, recipe_data, llm)} :
                output' = g /\ prompts' = g.sent
    /\ op' = "enrich"
    /\ enricherCalls' = 1
    /\ pc' = "done"
    /\ UNCHANGED <<GEMINI_API_KEY, site, locals, response, scrapeCalls>>

\* The operation is over; nothing of it is kept for the next one.
Idle ==
    /\ pc = "done"
    /\ op' = "none"
    /\ pc' = "idle"
    /\ request' = <<>>
    /\ site' = NoSite
    /\ reply' = NoReply
    /\ url' = Unbound
    /\ scraped_data' = Unbound
    /\ step_ingredients' = Unbound
    /\ result' = Unbound
    /\ response' = NoResponse
    /\ output' = <<>>
    /\ scrapeCalls' = 0
    /\ enricherCalls' = 0
    /\ prompts' = <<>>
    /\ UNCHANGED GEMINI_API_KEY

Next ==
    \/ GetReceive \/ GetScrape \/ GetGemini \/ GetAssembly \/ GetSend
    \/ MainStart \/ FullScrape \/ FullGemini
    \/ Enrich
    \/ Idle

Spec == Init /\ [][Next]_vars

---------------------------------------------------------------------------
(* Properties.                                                             *)

GetDone == op = "do_GET" /\ pc = "done"
MainDone == op = "main" /\ pc = "done"
EnrichDone == op = "enrich" /\ pc = "done"

\* do_GET asked the site of the request and no call of the scraper raised.
GetScraped ==
    /\ op = "do_GET"
    /\ scrapeCalls = 1
    /\ ~ScrapeFault(site, HandlerAccessors, TRUE).bound

\* extract_recipe_full asked the site and no call of the scraper raised.
FullScraped ==
    /\ op = "main"
    /\ scrapeCalls = 1
    /\ ~ScrapeFault(site, FullAccessors, FALSE).bound

\* The reply is text that json.loads rejects once the fences are stripped.
InvalidJsonReply(llm) ==
    llm.kind = "text" /\ ~JsonLoads(CleanReply(llm.text)).ok

\* The reply is text that parses to something other than an object.
NotAnObjectReply(llm) ==
    /\ llm.kind = "text"
    /\ JsonLoads(CleanReply(llm.text)).ok
    /\ JsonLoads(CleanReply(llm.text)).val.t # "obj"

\* The reply is an object with a key that is no integer.
BadKeyReply(llm) ==
    /\ llm.kind = "text"
    /\ JsonLoads(CleanReply(llm.text)).ok
    /\ JsonLoads(CleanReply(llm.text)).val.t = "obj"
    /\ \E i \in 1..Len(JsonLoads(CleanReply(llm.text)).val.v) :
         ~PyInt(JsonLoads(CleanReply(llm.text)).val.v[i].k).ok

\* C1: a GET request whose url query parameter is missing or empty is
\* answered with status 400, and neither the scraper nor the enricher is
\* called for it.
C1_MissingUrlIs400 ==
    (GetDone /\ ~Truthy(request.url))
    => /\ response.status = 400
       /\ scrapeCalls = 0
       /\ enricherCalls = 0

\* The part of C1 the code keeps: no request without a url reaches the
\* scraper or the enricher, and one whose target parses is answered 400.
C1_ShortCircuit ==
    (GetDone /\ ~Truthy(request.url))
    => /\ scrapeCalls = 0
       /\ enricherCalls = 0
       /\ request.targetParses => response.status = 400

\* A request without a url whose target urlparse rejects: the status line
\* 200 goes out and the handler ends in an uncaught exception.
C1_Witness ==
    /\ GetDone
    /\ request.url = PyNone
    /\ ~request.targetParses
    /\ response.status = 200
    /\ response.uncaught = "UnboundLocalError"

\* C2: a GET request whose x-api-key header is missing or differs from the
\* configured key is answered with status 401 and the scraper is never
\* called for it.
C2_BadKeyIs401 ==
    (GetDone /\ request.apiKey # "match")
    => /\ response.status = 401
       /\ scrapeCalls = 0

\* A request with a wrong key is scraped and answered 200 with the recipe.
C2_Witness ==
    /\ GetDone
    /\ request.apiKey = "wrong"
    /\ scrapeCalls = 1
    /\ response.status = 200
    /\ response.body.kind = "json"

\* C3: when a call of the scraper raises for a GET request with a url, the
\* response has status 500, never 200, and its body is the JSON object
\* {success: false, error: <the message raised>}.
C3_ScrapeFaultIs500 ==
    (GetDone /\ Truthy(request.url) /\ scrapeCalls = 1
        /\ ScrapeFault(site, HandlerAccessors, TRUE).bound)
    => /\ response.status # 200
       /\ response.status = 500
       /\ response.body.kind = "json"
       /\ response.body.value
            = [success |-> FALSE,
               error |-> ScrapeFault(site, HandlerAccessors, TRUE).v]

\* scrape_me raises: the status line 200 goes out, no body follows.
C3_Witness ==
    /\ GetDone
    /\ site.fault = "scrape_me"
    /\ scrapeCalls = 1
    /\ response.status = 200
    /\ response.body.kind = "none"
    /\ response.uncaught = "UnboundLocalError"

\* C4: the enricher never raises, and it returns the empty mapping when no
\* credential is configured, the remote call raises, the reply text is
\* None, the reply is invalid JSON after fence stripping, the reply is no
\* JSON object, or a key of the reply is no integer.  Called from do_GET
\* or extract_recipe_full, it leaves them on their normal path.
C4_EnricherNeverRaises ==
    /\ EnrichDone
       => /\ ~output.raised
          /\ (\/ ~GEMINI_API_KEY
              \/ reply.kind \in {"raise", "none"}
              \/ InvalidJsonReply(reply)
              \/ NotAnObjectReply(reply)
              \/ BadKeyReply(reply))
             => output.value = EmptyMap
    /\ (op = "do_GET" /\ enricherCalls = 1) => step_ingredients.bound
    /\ (MainDone /\ enricherCalls = 1) => output.result.success

C4_Witness ==
    /\ EnrichDone
    /\ GEMINI_API_KEY
    /\ BadKeyReply(reply)
    /\ ~output.raised
    /\ output.value = EmptyMap

C6_FencedParsesAsBare ==
    (EnrichDone /\ GEMINI_API_KEY /\ reply.kind = "text"
        /\ reply.lead # <<>> /\ reply.trail # <<>>
        /\ reply.body \in ObjectTexts)
    => output.value
         = CallGemini(TRUE, request, TextReply(<<>>, reply.body, <<>>)).value

\* What C6 comes to with the leading fence tagged json.
C6_TaggedFence ==
    (EnrichDone /\ GEMINI_API_KEY /\ reply.kind = "text"
        /\ StartsWith(reply.lead, FenceJson) /\ reply.trail # <<>>
        /\ reply.body \in ObjectTexts)
    => output.value
         = CallGemini(TRUE, request, TextReply(<<>>, reply.body, <<>>)).value

\* An object between untagged fences gives the empty mapping, the object
\* alone a mapping with key 0.
C6_Witness ==
    /\ EnrichDone
    /\ GEMINI_API_KEY
    /\ reply.kind = "text"
    /\ reply.lead = Fence \o <<NL>>
    /\ reply.trail = <<NL>> \o Fence
    /\ reply.body = <<"{", DQ, "0", DQ, ":", "[", DQ, "a", DQ, "]", "}">>
    /\ output.value = EmptyMap
    /\ DOMAIN CallGemini(TRUE, request,
                         TextReply(<<>>, reply.body, <<>>)).value = {0}

RECURSIVE TokenEnd(_, _)
\* The index after the run of non-whitespace characters that starts at i.
TokenEnd(s, i) ==
    IF i <= Len(s) /\ s[i] \notin PyWhitespace THEN TokenEnd(s, i + 1) ELSE i

\* The first whitespace-delimited token of a line and what follows it.
FirstToken(line) ==
    SubSeq(LStrip(line), 1, TokenEnd(LStrip(line), 1) - 1)
AfterFirstToken(line) ==
    Strip(SubSeq(LStrip(line), TokenEnd(LStrip(line), 1), Len(LStrip(line))))

\* C7: a raw ingredient line of more than one whitespace-delimited token is
\* normalized to {quantity: first token, item: the remainder}, any other
\* line to {quantity: null, item: the whole line}; whitespace of any kind,
\* leading, trailing or repeated, makes no difference.
C7_IngredientNormalization ==
    (op = "main" /\ scraped_data.bound)
    => \A i \in 1..Len(site.ingredients) :
         IF AfterFirstToken(site.ingredients[i]) # <<>>
         THEN /\ scraped_data.v.prep.ingredients[i].quantity
                   = PyStr(FirstToken(site.ingredients[i]))
              /\ Strip(scraped_data.v.prep.ingredients[i].item)
                   = AfterFirstToken(site.ingredients[i])
         ELSE /\ scraped_data.v.prep.ingredients[i].quantity = PyNone
              /\ scraped_data.v.prep.ingredients[i].item
                   = site.ingredients[i]

\* The line " 2 c" gets the empty string as its quantity.
C7_Witness ==
    /\ op = "main"
    /\ scraped_data.bound
    /\ \E i \in 1..Len(site.ingredients) :
         /\ site.ingredients[i] = <<SP, "2", SP, "c">>
         /\ scraped_data.v.prep.ingredients[i].quantity = PyStr(<<>>)
         /\ scraped_data.v.prep.ingredients[i].item = <<"2", SP, "c">>

\* C8: in a successful result the keys of the step-ingredient mapping are
\* indices of the instructions, 0 to their number less one.
C8_KeysAreStepIndices ==
    /\ (GetDone /\ result.bound)
       => \A k \in DOMAIN result.v.step_ingredients :
            k \in 0..(Len(site.instructions_list) - 1)
    /\ (MainDone /\ output.ran /\ output.result.success)
       => \A k \in DOMAIN output.result.data.step_ingredients :
            k \in 0..(Len(site.instructions_list) - 1)

\* A recipe of two instructions comes out with a step-ingredient key 7.
C8_Witness ==
    /\ MainDone
    /\ output.ran
    /\ output.result.success
    /\ Len(site.instructions_list) = 2
    /\ 7 \in DOMAIN output.result.data.step_ingredients

\* C9: when the accessor of one recipe field raises, that field takes its
\* default, the other fields are still read and the extraction succeeds.
C9_FieldsDefaultIndependently ==
    /\ (MainDone /\ output.ran /\ site.fault \in Range(FullAccessors))
       => /\ output.result.success
          /\ \A f \in {"title", "yields"} \ {site.fault} :
               output.result.data[f] = Accessor(site, f)
    /\ (GetDone /\ scrapeCalls = 1 /\ site.fault \in Range(FullAccessors))
       => /\ result.bound
          /\ response.body.kind = "json"

\* The title accessor raises and the whole extraction fails.
C9_Witness ==
    /\ MainDone
    /\ output.ran
    /\ site.fault = "title"
    /\ ~output.result.success
    /\ output.result.error = FaultMessage("title")

\* C10: when the enricher is called with a credential after a successful
\* scrape, from do_GET or from extract_recipe_full, the prompt holds every
\* ingredient of the recipe and its instructions numbered from 1 in order.
C10_PromptHoldsRecipe ==
    ((GetDone \/ MainDone) /\ GEMINI_API_KEY /\ enricherCalls = 1)
    => /\ Len(prompts) = 1
       /\ \A i \in 1..Len(site.ingredients) :
            Contains(prompts[1], Strip(site.ingredients[i]))
       /\ Contains(prompts[1],
                   Join(<<NL>>, [i \in 1..Len(site.instructions_list) |->
                                    StepForPrompt(
                                        i, site.instructions_list[i])]))

\* What C10 comes to for extract_recipe_full alone.
C10_FullPrompt ==
    (MainDone /\ GEMINI_API_KEY /\ enricherCalls = 1)
    => /\ Len(prompts) = 1
       /\ \A i \in 1..Len(site.ingredients) :
            Contains(prompts[1], Strip(site.ingredients[i]))
       /\ Contains(prompts[1],
                   Join(<<NL>>, [i \in 1..Len(site.instructions_list) |->
                                    StepForPrompt(
                                        i, site.instructions_list[i])]))

\* do_GET sends a prompt that lacks the ingredients of the recipe.
C10_Witness ==
    /\ GetDone
    /\ GEMINI_API_KEY
    /\ enricherCalls = 1
    /\ Len(site.ingredients) = 2
    /\ Len(prompts) = 1
    /\ ~Contains(prompts[1], Strip(site.ingredients[1]))

=============================================================================
